---- MODULE Spec2Model ----
(***************************************************************************)
(* Model of riptide_fw_bridge: RosProtobufBridge::processPacket and        *)
(* RosProtobufBridge::sendResponse (src/src/RosProtobufBridge.cpp) with    *)
(* the transmit callback of src/src/main.cpp, called from several          *)
(* transport threads at once.                                              *)
(*                                                                         *)
(* A raw frame is a sequence of protobuf fields [tag, val]; a field with   *)
(* tag 0 stands for bytes the protobuf parser rejects.  The two message    *)
(* handlers (createTopicHandler / createParamHandler) are external: each   *)
(* call of processMessage may send through the bridge, then returns true,  *)
(* returns false or throws MsgConversionError.  The transmit callback may  *)
(* return or throw.  Steps of processPacket that touch nothing shared are  *)
(* taken together with the step that follows them; a thread is observable  *)
(* inside a handler ("topic", "param"), serializing in sendResponse        *)
(* ("send"), waiting for tx_mutex_ ("lock") and inside the transmit        *)
(* callback ("tx").                                                        *)
(***************************************************************************)
EXTENDS Integers, Sequences, FiniteSets, TLC

VARIABLES
    protocol_version_,  \* RosProtobufBridge::protocol_version_
    tx_mutex_,          \* RosProtobufBridge::tx_mutex_: 0 when free, else the holding thread
    wire,               \* chunks the transmit callback has written: the frame in progress, and
                        \* headers left without a body by invocations that threw
    pc,                 \* per thread: position inside processPacket / sendResponse
    frame,              \* per thread: what was handed to processPacket: "ok" (well-formed
                        \* bytes), "malformed" (bytes that do not parse) or "oversize"
    msg,                \* per thread: the local comm_msg msg of processPacket
    send_ack,           \* per thread: the local bool send_ack of processPacket
    claimed,            \* per thread: which handler's processMessage returned true
    invoked,            \* per thread: the processMessage calls made for the current packet
    caller,             \* per thread: who called sendResponse ("dispatcher", "topic", "param")
    out,                \* per thread: the msg argument of the running sendResponse
    txdata,             \* per thread: the local std::string data of sendResponse
    sent,               \* per thread: the txCallback_ invocations made for the current packet
    logs,               \* per thread: the log lines written for the current packet
    ret,                \* per thread: how the current processPacket call ended
    before              \* per thread: what this thread's previous processPacket call was
                        \* (recorded by the sequential specification only)

vars == <<protocol_version_, tx_mutex_, wire, pc, frame, msg, send_ack, claimed,
          invoked, caller, out, txdata, sent, logs, ret, before>>

----------------------------------------------------------------------------
(* Bounds of the model *)

\* largest ack token and connect version a frame carries
MaxVal == 1
\* largest number of fields in one inbound frame
MaxFields == 2
\* largest number of chunks on the wire at which a transmit callback may still throw
\* before it has written its body, leaving one more header without a body
MaxDangling == 1

\* the transport threads calling processPacket; thread t serves client clientId(t)
Threads == {1, 2}

clientId(t) == 10 + t

\* the value the schema's protocol_version option was compiled with
ProtocolVersions == {1}

----------------------------------------------------------------------------
(* The comm_msg schema and its codec *)

INT_MAX == 2147483647

\* oneof case value of an envelope with no payload field
MSG_NOT_SET == 0

\* the declared fields of comm_msg: field number -> declared name
CommMsgFields == (1 :> "ack") @@ (2 :> "connect_ver") @@ (3 :> "payload")

FieldNumberOf(name) == CHOOSE n \in DOMAIN CommMsgFields : CommMsgFields[n] = name

kAck == FieldNumberOf("ack")

kConnectVer == FieldNumberOf("connect_ver")

\* the members of oneof msg
OneofTags == DOMAIN CommMsgFields \ {kAck}

\* a default-constructed comm_msg
DefaultMsg == [msg_case |-> MSG_NOT_SET, ack |-> 0, connect_ver |-> 0, oversize |-> FALSE]

\* a parser that takes any field other than ack for the populated oneof member
ParseField_UnknownAsCase(m, f) ==
    IF f.tag = kAck THEN [m EXCEPT !.ack = f.val]
    ELSE [m EXCEPT !.msg_case = f.tag,
                   !.connect_ver = IF f.tag = kConnectVer THEN f.val ELSE 0]

\* one field read by the parser: ack overwrites ack, a oneof member replaces the
\* populated member, an undeclared number is kept aside as an unknown field
ParseField(m, f) ==
    IF f.tag = kAck THEN [m EXCEPT !.ack = f.val]
    ELSE IF f.tag \in OneofTags
         THEN [m EXCEPT !.msg_case = f.tag,
                        !.connect_ver = IF f.tag = kConnectVer THEN f.val ELSE 0]
         ELSE m

RECURSIVE ParseFrom(_, _)
ParseFrom(m, fields) ==
    IF fields = <<>> THEN m
    ELSE ParseFrom(ParseField(m, Head(fields)), Tail(fields))

\* msg.ParseFromArray(data, size): the parsed message
Parse(fields) == ParseFrom(DefaultMsg, fields)

\* msg.ParseFromArray(data, size): whether the bytes are well formed
ParseOk(fields) == \A i \in 1..Len(fields) : fields[i].tag # 0

\* a size_t value is kept as hi * 2^31 + lo with lo in 0..INT_MAX, so that sizes
\* beyond INT_MAX can be written down
SizeT(hi, lo) == [hi |-> hi, lo |-> lo]

\* size > bound, for a bound in 0..INT_MAX
SizeGreater(size, bound) == size.hi > 0 \/ size.lo > bound

\* the decode test without its size guard
DecodeFails_NoSizeCheck(fields, size) == ~ParseOk(fields)

\* the decode test of processPacket
DecodeFails(fields, size) == SizeGreater(size, INT_MAX) \/ ~ParseOk(fields)

\* a sendResponse that ignores the result of SerializeToString
SerializeOk_Always(m) == TRUE

\* msg.SerializeToString(&data): whether it succeeds
SerializeOk(m) == ~m.oversize

\* msg.SerializeToString(&data): the bytes
Serialize(m) ==
    (IF m.ack # 0 THEN <<[tag |-> kAck, val |-> m.ack]>> ELSE <<>>)
    \o (IF m.msg_case # MSG_NOT_SET
        THEN <<[tag |-> m.msg_case,
                val |-> IF m.msg_case = kConnectVer THEN m.connect_ver ELSE 0]>>
        ELSE <<>>)

lookupCommFieldName(fieldNum) ==
    IF fieldNum \in DOMAIN CommMsgFields
    THEN CommMsgFields[fieldNum]
    ELSE "Unknown Topic Num " \o ToString(fieldNum)

----------------------------------------------------------------------------
(* Inputs *)

\* field numbers no field of comm_msg has
UndeclaredTags == {99}

\* fields a client may put on the wire: an ack token, a connect version, a payload
\* member, an undeclared field, and bytes that are no field at all (tag 0)
WireFields ==
    [tag : {kAck, kConnectVer}, val : 0..MaxVal]
    \cup [tag : (OneofTags \ {kConnectVer}) \cup UndeclaredTags \cup {0}, val : {0}]

SeqsUpTo(S, n) == UNION {[1..k -> S] : k \in 0..n}

Frames == SeqsUpTo(WireFields, MaxFields)

\* the (data, size) arguments of processPacket: a frame with its own length, or a
\* buffer of 2^31 bytes, whose content is never read
Inputs ==
    {[fields |-> f, size |-> SizeT(0, Len(f))] : f \in Frames}
    \cup {[fields |-> <<>>, size |-> SizeT(1, 0)]}

\* what the decode step of processPacket makes of an input
DecodeOutcome(i) ==
    LET failed == DecodeFails(i.fields, i.size)
    IN [failed |-> failed,
        msg |-> IF failed THEN DefaultMsg ELSE Parse(i.fields),
        frame |-> IF i.size.hi > 0 THEN "oversize"
                  ELSE IF \E k \in 1..Len(i.fields) : i.fields[k].tag = 0 THEN "malformed"
                  ELSE "ok"]

DecodeOutcomes == {DecodeOutcome(i) : i \in Inputs}

\* envelopes a handler may pass to sendResponse while it processes m
HandlerReplies(m) ==
    {[msg_case |-> m.msg_case, ack |-> m.ack, connect_ver |-> 0, oversize |-> b] : b \in BOOLEAN}

----------------------------------------------------------------------------
(* Decisions of processPacket and sendResponse *)

\* where processPacket goes after the decode test
AfterDecode(failed) == IF failed THEN "done" ELSE "route"

\* a connect branch entered only by clients offering the bridge's version
HandlesAsConnect_OnlyAccepted(m, pv) == m.msg_case = kConnectVer /\ m.connect_ver = pv

\* the test that selects the connect branch
HandlesAsConnect(m, pv) == m.msg_case = kConnectVer

\* a send_ack that outlives the call (a member instead of a local)
InitialSendAck_Kept(prev) == prev

\* send_ack at the start of the try block, prev being what the thread's last call left
InitialSendAck(prev) == FALSE

\* a version test that accepts every client
VersionAccepted_Always(m, pv) == TRUE

\* the version test of the connect branch
VersionAccepted(m, pv) == m.connect_ver = pv

\* send_ack set by whichever handler claims the message
SendAckAfter_AnyClaim(handler, handled, sa) == IF handled THEN TRUE ELSE sa

\* send_ack set once the topic handler was tried, whatever it answered
SendAckAfter_TopicTried(handler, handled, sa) == IF handler = "topic" THEN TRUE ELSE sa

\* send_ack never set by the handler branches
SendAckAfter_Never(handler, handled, sa) == sa

\* send_ack after a handler's processMessage returned
SendAckAfter(handler, handled, sa) == IF handler = "topic" /\ handled THEN TRUE ELSE sa

\* an acknowledgement test that does not look at the token
AckNeeded_IgnoreToken(sa, m) == sa

\* the test guarding the acknowledgement
AckNeeded(sa, m) == sa /\ m.ack # 0

\* an acknowledgement that reuses the inbound message
MakeAck_CopyInbound(m) == m

\* the acknowledgement built for inbound message m
MakeAck(m) == [[DefaultMsg EXCEPT !.ack = m.ack] EXCEPT !.msg_case = MSG_NOT_SET,
                                                        !.connect_ver = 0]

\* a dispatcher that takes the mutex around the handler calls
MutexInRouting_HeldForHandler(mutex, t) == IF mutex = 0 THEN t ELSE mutex

\* tx_mutex_ once processPacket has called a handler: the routing code does not touch it
MutexInRouting(mutex, t) == mutex

\* a sendResponse that takes the mutex before it serializes
MutexInEncode_LockFirst(mutex, t) == IF mutex = 0 THEN t ELSE mutex

\* tx_mutex_ once sendResponse has serialized: the mutex is not touched before line 95
MutexInEncode(mutex, t) == mutex

\* a catch placed around the topic handler alone, so that the parameter handler is
\* tried after a conversion error
AfterConversionError_NextHandler(who) == IF who = "topic" THEN "param" ELSE "done"

\* where processPacket goes from its catch block
AfterConversionError(who) == "done"

\* a send path that does not wait for the mutex
LockAvailable_Always(mutex) == TRUE

\* std::scoped_lock's constructor may proceed
LockAvailable(mutex) == mutex = 0

\* a manual unlock after the callback, skipped when the callback throws
ScopedLockExit_LeakOnThrow(mutex, outcome) == IF outcome = "throw" THEN mutex ELSE 0

\* a mutex locked by hand and never unlocked
ScopedLockExit_NoUnlock(mutex, outcome) == mutex

\* tx_mutex_ after the scope of sendResponse is left, by return or by throw
ScopedLockExit(mutex, outcome) == 0

----------------------------------------------------------------------------
(* Log lines *)

LogLine(level, event, text) == [level |-> level, event |-> event, text |-> text]

Log(lines, line) == lines \cup {line}

\* e.what() of a MsgConversionError, whoever threw it
ConversionTexts == {"bad quaternion", "sink conversion failure"}

\* the warning of the catch block of processPacket for message m and exception text what
ConversionWarning(m, what) ==
    IF m.msg_case = MSG_NOT_SET
    THEN LogLine("warn", "invalid_not_set", what)
    ELSE LogLine("warn", "invalid", lookupCommFieldName(m.msg_case) \o " - " \o what)

----------------------------------------------------------------------------
Init ==
    /\ protocol_version_ \in ProtocolVersions
    /\ tx_mutex_ = 0
    /\ wire = <<>>
    /\ pc = [t \in Threads |-> "idle"]
    /\ frame = [t \in Threads |-> "none"]
    /\ msg = [t \in Threads |-> DefaultMsg]
    /\ send_ack = [t \in Threads |-> FALSE]
    /\ claimed = [t \in Threads |-> "none"]
    /\ invoked = [t \in Threads |-> <<>>]
    /\ caller = [t \in Threads |-> "none"]
    /\ out = [t \in Threads |-> DefaultMsg]
    /\ txdata = [t \in Threads |-> <<>>]
    /\ sent = [t \in Threads |-> {}]
    /\ logs = [t \in Threads |-> {}]
    /\ ret = [t \in Threads |-> "none"]
    /\ before = [t \in Threads |-> "none"]

\* the acknowledge step of processPacket, reached with send_ack = sa: either
\* sendResponse is entered with the acknowledgement, or processPacket returns
Acknowledge(t, sa, m) ==
    /\ send_ack' = [send_ack EXCEPT ![t] = sa]
    /\ IF AckNeeded(sa, m)
       THEN /\ out' = [out EXCEPT ![t] = MakeAck(m)]
            /\ caller' = [caller EXCEPT ![t] = "dispatcher"]
            /\ pc' = [pc EXCEPT ![t] = "send"]
            /\ ret' = [ret EXCEPT ![t] = "none"]
       ELSE /\ out' = [out EXCEPT ![t] = DefaultMsg]
            /\ caller' = [caller EXCEPT ![t] = "none"]
            /\ pc' = [pc EXCEPT ![t] = "done"]
            /\ ret' = [ret EXCEPT ![t] = "normal"]

\* processPacket is entered with input d: the per-packet records start afresh
Enter(t, d) ==
    /\ pc[t] \in {"idle", "done"}
    /\ frame' = [frame EXCEPT ![t] = d.frame]
    /\ msg' = [msg EXCEPT ![t] = d.msg]
    /\ claimed' = [claimed EXCEPT ![t] = "none"]
    /\ txdata' = [txdata EXCEPT ![t] = <<>>]
    /\ sent' = [sent EXCEPT ![t] = {}]
    /\ UNCHANGED <<protocol_version_, wire>>

\* processPacket on a frame that fails the decode test: warn and return
DecodeFailureOn(t, D) ==
    \E d \in D :
        /\ AfterDecode(d.failed) = "done"
        /\ Enter(t, d)
        /\ logs' = [logs EXCEPT ![t] = {LogLine("warn", "corrupt", "")}]
        /\ pc' = [pc EXCEPT ![t] = "done"]
        /\ ret' = [ret EXCEPT ![t] = "normal"]
        /\ send_ack' = [send_ack EXCEPT ![t] = InitialSendAck(send_ack[t])]
        /\ invoked' = [invoked EXCEPT ![t] = <<>>]
        /\ caller' = [caller EXCEPT ![t] = "none"]
        /\ out' = [out EXCEPT ![t] = DefaultMsg]
        /\ UNCHANGED tx_mutex_

\* processPacket on a connect message: the version test, then the acknowledge step
HandleConnectOn(t, D) ==
    \E d \in D :
        /\ AfterDecode(d.failed) = "route"
        /\ HandlesAsConnect(d.msg, protocol_version_)
        /\ Enter(t, d)
        /\ invoked' = [invoked EXCEPT ![t] = <<>>]
        /\ LET ok == VersionAccepted(d.msg, protocol_version_)
           IN /\ logs' = [logs EXCEPT ![t] =
                            IF ok THEN {LogLine("info", "connected", ToString(d.msg.connect_ver))}
                            ELSE {LogLine("warn", "bad_version", ToString(d.msg.connect_ver))}]
              /\ Acknowledge(t, IF ok THEN TRUE ELSE InitialSendAck(send_ack[t]), d.msg)
        /\ UNCHANGED tx_mutex_

\* processPacket on any other message: topicHandler->processMessage is called
CallTopicHandlerOn(t, D) ==
    \E d \in D :
        /\ AfterDecode(d.failed) = "route"
        /\ ~HandlesAsConnect(d.msg, protocol_version_)
        /\ Enter(t, d)
        /\ logs' = [logs EXCEPT ![t] = {}]
        /\ invoked' = [invoked EXCEPT ![t] = <<"topic">>]
        /\ pc' = [pc EXCEPT ![t] = "topic"]
        /\ ret' = [ret EXCEPT ![t] = "none"]
        /\ send_ack' = [send_ack EXCEPT ![t] = InitialSendAck(send_ack[t])]
        /\ caller' = [caller EXCEPT ![t] = "none"]
        /\ out' = [out EXCEPT ![t] = DefaultMsg]
        /\ tx_mutex_' = MutexInRouting(tx_mutex_, t)

DecodeFailure(t) == DecodeFailureOn(t, DecodeOutcomes) /\ UNCHANGED before

HandleConnect(t) == HandleConnectOn(t, DecodeOutcomes) /\ UNCHANGED before

CallTopicHandler(t) == CallTopicHandlerOn(t, DecodeOutcomes) /\ UNCHANGED before

\* a running handler calls the bridge's sendResponse (any number of times)
HandlerSend(t) ==
    /\ pc[t] \in {"topic", "param"}
    /\ \E env \in HandlerReplies(msg[t]) : out' = [out EXCEPT ![t] = env]
    /\ caller' = [caller EXCEPT ![t] = pc[t]]
    /\ pc' = [pc EXCEPT ![t] = "send"]
    /\ UNCHANGED <<protocol_version_, before, tx_mutex_, wire, frame, msg, send_ack, claimed,
                   invoked, txdata, sent, logs, ret>>

\* an if chain without its else: the parameter handler is called although the topic
\* handler returned true
TopicClaims_FallThrough(t) ==
    /\ pc[t] = "topic"
    /\ claimed' = [claimed EXCEPT ![t] = "topic"]
    /\ send_ack' = [send_ack EXCEPT ![t] = SendAckAfter("topic", TRUE, send_ack[t])]
    /\ invoked' = [invoked EXCEPT ![t] = Append(invoked[t], "param")]
    /\ pc' = [pc EXCEPT ![t] = "param"]
    /\ UNCHANGED <<protocol_version_, before, tx_mutex_, wire, frame, msg, caller, out,
                   txdata, sent, logs, ret>>

\* topicHandler->processMessage returns true: the acknowledge step follows
TopicClaims(t) ==
    /\ pc[t] = "topic"
    /\ claimed' = [claimed EXCEPT ![t] = "topic"]
    /\ Acknowledge(t, SendAckAfter("topic", TRUE, send_ack[t]), msg[t])
    /\ UNCHANGED <<protocol_version_, before, tx_mutex_, wire, frame, msg, invoked, txdata, sent, logs>>

\* topicHandler->processMessage returns false: paramHandler->processMessage is called
TopicDeclines(t) ==
    /\ pc[t] = "topic"
    /\ send_ack' = [send_ack EXCEPT ![t] = SendAckAfter("topic", FALSE, send_ack[t])]
    /\ invoked' = [invoked EXCEPT ![t] = Append(invoked[t], "param")]
    /\ pc' = [pc EXCEPT ![t] = "param"]
    /\ UNCHANGED <<protocol_version_, before, tx_mutex_, wire, frame, msg, claimed, caller, out,
                   txdata, sent, logs, ret>>

\* paramHandler->processMessage returns true: the acknowledge step follows
ParamClaims(t) ==
    /\ pc[t] = "param"
    /\ claimed' = [claimed EXCEPT ![t] = "param"]
    /\ Acknowledge(t, SendAckAfter("param", TRUE, send_ack[t]), msg[t])
    /\ UNCHANGED <<protocol_version_, before, tx_mutex_, wire, frame, msg, invoked, txdata, sent, logs>>

\* paramHandler->processMessage returns false: the message is reported as unhandled,
\* then the acknowledge step follows
ParamDeclines(t) ==
    /\ pc[t] = "param"
    /\ logs' = [logs EXCEPT ![t] =
                  IF msg[t].msg_case = MSG_NOT_SET
                  THEN Log(logs[t], LogLine("warn", "not_populated", ""))
                  ELSE Log(logs[t], LogLine("warn", "no_handler",
                                            lookupCommFieldName(msg[t].msg_case)))]
    /\ Acknowledge(t, SendAckAfter("param", FALSE, send_ack[t]), msg[t])
    /\ UNCHANGED <<protocol_version_, before, tx_mutex_, wire, frame, msg, claimed, invoked,
                   txdata, sent>>

\* a handler's processMessage throws MsgConversionError, caught by processPacket
HandlerThrow(t) ==
    /\ pc[t] \in {"topic", "param"}
    /\ \E what \in ConversionTexts :
         logs' = [logs EXCEPT ![t] = Log(logs[t], ConversionWarning(msg[t], what))]
    /\ LET next == AfterConversionError(pc[t])
       IN /\ pc' = [pc EXCEPT ![t] = next]
          /\ ret' = [ret EXCEPT ![t] = IF next = "done" THEN "normal" ELSE ret[t]]
    /\ UNCHANGED <<protocol_version_, before, tx_mutex_, wire, frame, msg, send_ack, claimed,
                   invoked, caller, out, txdata, sent>>

\* a handler's processMessage throws an exception that is no MsgConversionError: no
\* catch clause of processPacket matches, and the exception leaves processPacket
HandlerThrowOther(t) ==
    /\ pc[t] \in {"topic", "param"}
    /\ pc' = [pc EXCEPT ![t] = "done"]
    /\ ret' = [ret EXCEPT ![t] = "exception"]
    /\ UNCHANGED <<protocol_version_, before, tx_mutex_, wire, frame, msg, send_ack, claimed,
                   invoked, caller, out, txdata, sent, logs>>

\* where control goes when sendResponse returns to its caller
ReturnTo(who) == IF who = "dispatcher" THEN "done" ELSE who

\* sendResponse serializes its argument
Encode(t) ==
    /\ pc[t] = "send"
    /\ IF SerializeOk(out[t])
       THEN /\ txdata' = [txdata EXCEPT ![t] = Serialize(out[t])]
            /\ pc' = [pc EXCEPT ![t] = "lock"]
            /\ UNCHANGED <<logs, ret, caller, out>>
       ELSE /\ logs' = [logs EXCEPT ![t] = Log(logs[t], LogLine("error", "serialize", ""))]
            /\ pc' = [pc EXCEPT ![t] = ReturnTo(caller[t])]
            /\ ret' = [ret EXCEPT ![t] = IF caller[t] = "dispatcher" THEN "normal" ELSE ret[t]]
            /\ caller' = [caller EXCEPT ![t] = "none"]
            /\ out' = [out EXCEPT ![t] = DefaultMsg]
            /\ UNCHANGED txdata
    /\ tx_mutex_' = MutexInEncode(tx_mutex_, t)
    /\ UNCHANGED <<protocol_version_, before, wire, frame, msg, send_ack, claimed,
                   invoked, sent>>

\* sendResponse takes tx_mutex_ and enters txCallback_, which writes its header line
TxBegin(t) ==
    /\ pc[t] = "lock"
    /\ LockAvailable(tx_mutex_)
    /\ tx_mutex_' = t
    /\ sent' = [sent EXCEPT ![t] = sent[t] \cup
                  {[client |-> clientId(t), data |-> txdata[t],
                    from |-> IF caller[t] = "dispatcher" THEN "dispatcher" ELSE "handler"]}]
    /\ wire' = Append(wire, [by |-> t, part |-> "header"])
    /\ pc' = [pc EXCEPT ![t] = "tx"]
    /\ UNCHANGED <<protocol_version_, before, frame, msg, send_ack, claimed, invoked, caller,
                   out, txdata, logs, ret>>

\* the chunks on the wire once thread t's callback has written its body: a frame
\* written in one piece is complete and leaves the wire
WireAfterBody(w, t) ==
    IF w # <<>> /\ w[Len(w)] = [by |-> t, part |-> "header"]
    THEN SubSeq(w, 1, Len(w) - 1)
    ELSE Append(w, [by |-> t, part |-> "body"])

\* txCallback_ returns and sendResponse returns to its caller
TxReturn(t) ==
    /\ pc[t] = "tx"
    /\ wire' = WireAfterBody(wire, t)
    /\ tx_mutex_' = ScopedLockExit(tx_mutex_, "return")
    /\ pc' = [pc EXCEPT ![t] = ReturnTo(caller[t])]
    /\ ret' = [ret EXCEPT ![t] = IF caller[t] = "dispatcher" THEN "normal" ELSE ret[t]]
    /\ caller' = [caller EXCEPT ![t] = "none"]
    /\ out' = [out EXCEPT ![t] = DefaultMsg]
    /\ txdata' = [txdata EXCEPT ![t] = <<>>]
    /\ UNCHANGED <<protocol_version_, before, frame, msg, send_ack, claimed, invoked,
                   sent, logs>>

\* the chunks on the wire once thread t's callback has thrown: it threw after its
\* body was written, or between its header and its body, which leaves the header
\* where it is
WireAfterThrow(w, t) ==
    {WireAfterBody(w, t)} \cup (IF Len(w) <= MaxDangling THEN {w} ELSE {})

\* txCallback_ throws an exception that is no MsgConversionError: the scope of
\* sendResponse is left, and the exception passes through the calling handler and
\* out of processPacket
TxThrow(t) ==
    /\ pc[t] = "tx"
    /\ \E w \in WireAfterThrow(wire, t) : wire' = w
    /\ tx_mutex_' = ScopedLockExit(tx_mutex_, "throw")
    /\ pc' = [pc EXCEPT ![t] = "done"]
    /\ ret' = [ret EXCEPT ![t] = "exception"]
    /\ caller' = [caller EXCEPT ![t] = "none"]
    /\ out' = [out EXCEPT ![t] = DefaultMsg]
    /\ txdata' = [txdata EXCEPT ![t] = <<>>]
    /\ UNCHANGED <<protocol_version_, before, frame, msg, send_ack, claimed, invoked,
                   sent, logs>>

\* txCallback_ throws a MsgConversionError: the scope of sendResponse is left, which
\* releases tx_mutex_, and the exception passes through the calling handler, if any,
\* to the catch block of processPacket
TxThrowConversion(t) ==
    /\ pc[t] = "tx"
    /\ \E w \in WireAfterThrow(wire, t) : wire' = w
    /\ tx_mutex_' = ScopedLockExit(tx_mutex_, "throw")
    /\ pc' = [pc EXCEPT ![t] = "catch"]
    /\ caller' = [caller EXCEPT ![t] = "none"]
    /\ out' = [out EXCEPT ![t] = DefaultMsg]
    /\ txdata' = [txdata EXCEPT ![t] = <<>>]
    /\ UNCHANGED <<protocol_version_, before, frame, msg, send_ack, claimed, invoked,
                   sent, logs, ret>>

\* the catch block of processPacket, reached with the callback's MsgConversionError:
\* it warns with the text of the exception, and processPacket returns
CatchConversionError(t) ==
    /\ pc[t] = "catch"
    /\ \E what \in ConversionTexts :
         logs' = [logs EXCEPT ![t] = Log(logs[t], ConversionWarning(msg[t], what))]
    /\ pc' = [pc EXCEPT ![t] = "done"]
    /\ ret' = [ret EXCEPT ![t] = "normal"]
    /\ UNCHANGED <<protocol_version_, before, tx_mutex_, wire, frame, msg, send_ack, claimed,
                   invoked, caller, out, txdata, sent>>

Next ==
    \E t \in Threads :
        \/ DecodeFailure(t)
        \/ HandleConnect(t)
        \/ CallTopicHandler(t)
        \/ HandlerSend(t)
        \/ TopicClaims(t)
        \/ TopicDeclines(t)
        \/ ParamClaims(t)
        \/ ParamDeclines(t)
        \/ HandlerThrow(t)
        \/ HandlerThrowOther(t)
        \/ Encode(t)
        \/ TxBegin(t)
        \/ TxReturn(t)
        \/ TxThrow(t)
        \/ TxThrowConversion(t)
        \/ CatchConversionError(t)

Spec == Init /\ [][Next]_vars

----------------------------------------------------------------------------
(* The sequential specification: one transport thread calls processPacket again   *)
(* and again, and what it handed in, now and the time before, is kept in detail.  *)

SeqThreads == {1}

\* the input has an undeclared field and no member of oneof msg
OnlyUndeclared(i) ==
    /\ \E k \in 1..Len(i.fields) : i.fields[k].tag \in UndeclaredTags
    /\ \A k \in 1..Len(i.fields) : i.fields[k].tag \notin OneofTags

\* the decode outcome of input i, its frame "undeclared" when it is well formed and
\* carries an undeclared field in place of a payload
TracedOutcome(i) ==
    LET d == DecodeOutcome(i)
    IN [d EXCEPT !.frame = IF @ = "ok" /\ OnlyUndeclared(i) THEN "undeclared" ELSE @]

TracedOutcomes == {TracedOutcome(i) : i \in Inputs}

\* what thread t's call, now over, was
CallKind(t) ==
    IF pc[t] = "idle" THEN "none"
    ELSE IF frame[t] \in {"malformed", "oversize"} THEN "undecodable"
    ELSE IF msg[t].msg_case # kConnectVer THEN "routed"
    ELSE IF msg[t].connect_ver = protocol_version_ THEN "connect_accepted"
    ELSE "connect_rejected"

Remember(t) == before' = [before EXCEPT ![t] = CallKind(t)]

SeqDecodeFailure(t) == DecodeFailureOn(t, TracedOutcomes) /\ Remember(t)

SeqHandleConnect(t) == HandleConnectOn(t, TracedOutcomes) /\ Remember(t)

SeqCallTopicHandler(t) == CallTopicHandlerOn(t, TracedOutcomes) /\ Remember(t)

SeqNext ==
    \E t \in SeqThreads :
        \/ SeqDecodeFailure(t)
        \/ SeqHandleConnect(t)
        \/ SeqCallTopicHandler(t)
        \/ HandlerSend(t)
        \/ TopicClaims(t)
        \/ TopicDeclines(t)
        \/ ParamClaims(t)
        \/ ParamDeclines(t)
        \/ HandlerThrow(t)
        \/ HandlerThrowOther(t)
        \/ Encode(t)
        \/ TxBegin(t)
        \/ TxReturn(t)
        \/ TxThrow(t)
        \/ TxThrowConversion(t)
        \/ CatchConversionError(t)

SeqSpec == Init /\ [][SeqNext]_vars

TypeOK ==
    /\ protocol_version_ \in ProtocolVersions
    /\ tx_mutex_ \in Threads \cup {0}
    /\ \A t \in Threads :
         /\ pc[t] \in {"idle", "topic", "param", "send", "lock", "tx", "catch", "done"}
         /\ frame[t] \in {"none", "ok", "malformed", "oversize", "undeclared"}
         /\ ret[t] \in {"none", "normal", "exception"}

----------------------------------------------------------------------------
(* Properties *)

\* the transmit-callback invocations sendResponse made for thread t's packet on
\* behalf of the dispatcher's own acknowledge step
DispatcherAcks(t) == {s \in sent[t] : s.from = "dispatcher"}

\* the catch block of processPacket ran for thread t's packet
ConversionErrorLogged(t) == \E l \in logs[t] : l.event \in {"invalid", "invalid_not_set"}

\* a MsgConversionError came out of a handler's processMessage for thread t's
\* packet: the catch block ran with a handler called and no handler having claimed
HandlerErrorLogged(t) ==
    ConversionErrorLogged(t) /\ invoked[t] # <<>> /\ claimed[t] = "none"

\* thread t's packet is a connect message whose version is the bridge's
ConnectAccepted(t) ==
    /\ frame[t] = "ok"
    /\ msg[t].msg_case = kConnectVer
    /\ msg[t].connect_ver = protocol_version_

\* thread t's packet is a connect message whose version is not the bridge's
ConnectRejected(t) ==
    /\ frame[t] = "ok"
    /\ msg[t].msg_case = kConnectVer
    /\ msg[t].connect_ver # protocol_version_

\* C1: for a connect message with the bridge's protocol version, no acknowledgement
\* is transmitted when the ack token is 0, one has been transmitted by the time
\* processPacket ends when the token is not 0, and the token transmitted is the
\* inbound token.
C1_ConnectAckIffToken ==
    \A t \in Threads :
        ConnectAccepted(t) =>
            /\ \A s \in DispatcherAcks(t) :
                 msg[t].ack # 0 /\ ParseOk(s.data) /\ Parse(s.data).ack = msg[t].ack
            /\ (pc[t] = "done" /\ msg[t].ack # 0) => DispatcherAcks(t) # {}

C1_Witness ==
    \E t \in Threads :
        /\ ConnectAccepted(t)
        /\ pc[t] = "done"
        /\ msg[t].ack = MaxVal
        /\ \E s \in DispatcherAcks(t) : Parse(s.data).ack = MaxVal

\* C2: for a connect message whose version differs from the bridge's protocol
\* version, nothing is ever transmitted, whatever the ack token.
C2_NoAckOnMismatch ==
    \A t \in Threads : ConnectRejected(t) => sent[t] = {}

C2_Witness ==
    \E t \in Threads :
        /\ ConnectRejected(t)
        /\ msg[t].ack # 0
        /\ pc[t] = "done"
        /\ ret[t] = "normal"
        /\ sent[t] = {}

\* C3: for a buffer that does not decode (malformed bytes, or a size beyond
\* INT_MAX), processPacket has returned normally without calling a handler and
\* without calling the transmit callback.
C3_UndecodableDropped ==
    \A t \in Threads :
        frame[t] \in {"malformed", "oversize"} =>
            /\ pc[t] = "done"
            /\ ret[t] = "normal"
            /\ invoked[t] = <<>>
            /\ sent[t] = {}

C3_Witness ==
    \E t, u \in Threads :
        /\ frame[t] = "oversize" /\ pc[t] = "done" /\ ret[t] = "normal"
        /\ frame[u] = "malformed" /\ pc[u] = "done" /\ ret[u] = "normal"

\* C4 as stated: for a decoded envelope with no payload field set, no handler's
\* processMessage is invoked and no acknowledgement is sent.
C4_Original ==
    \A t \in Threads :
        (frame[t] = "ok" /\ msg[t].msg_case = MSG_NOT_SET) =>
            /\ invoked[t] = <<>>
            /\ DispatcherAcks(t) = {}

\* C4 amended: a decoded envelope with no payload field set is offered to the topic
\* handler and then to the parameter handler; unless the topic handler claims it the
\* dispatcher sends no acknowledgement, and when neither claims it processPacket
\* returns normally having tried both and logged the 'not populated' warning.
C4_NotSetUnclaimedNoAck ==
    \A t \in Threads :
        (frame[t] = "ok" /\ msg[t].msg_case = MSG_NOT_SET) =>
            /\ claimed[t] # "topic" => DispatcherAcks(t) = {}
            /\ (pc[t] = "done" /\ ret[t] = "normal" /\ claimed[t] = "none"
                  /\ ~ConversionErrorLogged(t)) =>
                 /\ invoked[t] = <<"topic", "param">>
                 /\ LogLine("warn", "not_populated", "") \in logs[t]

C4_Witness ==
    \E t \in Threads :
        /\ frame[t] = "ok"
        /\ msg[t].msg_case = MSG_NOT_SET
        /\ msg[t].ack # 0
        /\ pc[t] = "done"
        /\ claimed[t] = "none"
        /\ invoked[t] = <<"topic", "param">>
        /\ LogLine("warn", "not_populated", "") \in logs[t]
        /\ sent[t] = {}

\* C5: for a message the topic handler claimed, no acknowledgement is transmitted
\* when the ack token is 0, and one has been transmitted by the time processPacket
\* ends when the token is not 0.
C5_TopicAckIffToken ==
    \A t \in Threads :
        claimed[t] = "topic" =>
            /\ DispatcherAcks(t) # {} => msg[t].ack # 0
            /\ (pc[t] = "done" /\ msg[t].ack # 0) => DispatcherAcks(t) # {}

C5_Witness ==
    \E t, u \in Threads :
        /\ claimed[t] = "topic" /\ pc[t] = "done"
        /\ msg[t].ack # 0 /\ DispatcherAcks(t) # {}
        /\ claimed[u] = "topic" /\ pc[u] = "done"
        /\ msg[u].ack = 0 /\ DispatcherAcks(u) = {}

\* C6: for a message the parameter handler claimed (the topic handler having
\* declined it), the dispatcher sends no acknowledgement even when the ack token is
\* not 0: whatever was transmitted for the packet was sent by a handler.
C6_ParamNoAutoAck ==
    \A t \in Threads :
        claimed[t] = "param" =>
            /\ invoked[t] = <<"topic", "param">>
            /\ \A s \in sent[t] : s.from = "handler"

C6_Witness ==
    \E t \in Threads :
        /\ claimed[t] = "param"
        /\ pc[t] = "done"
        /\ ret[t] = "normal"
        /\ msg[t].ack # 0
        /\ sent[t] # {}

\* the threads inside the transmit callback
InSink == {t \in Threads : pc[t] = "tx"}

\* a header left on the wire by an invocation of the callback that threw before it
\* wrote its body
Dangling(c) == c.part = "header"

\* C7: at most one invocation of the transmit callback is in progress; it belongs to
\* the holder of tx_mutex_, it was handed the complete encoding of one message, and
\* no other invocation's output is mixed into what it has written: before its own
\* header the wire holds nothing but what invocations that threw left behind.
C7_SinkSerialized ==
    /\ Cardinality(InSink) <= 1
    /\ \A t \in InSink :
         /\ tx_mutex_ = t
         /\ wire # <<>>
         /\ wire[Len(wire)] = [by |-> t, part |-> "header"]
         /\ \A k \in 1..(Len(wire) - 1) : Dangling(wire[k])
         /\ SerializeOk(out[t])
         /\ txdata[t] = Serialize(out[t])
         /\ ParseOk(txdata[t])
         /\ Parse(txdata[t]) = out[t]
    /\ InSink = {} => \A k \in 1..Len(wire) : Dangling(wire[k])

C7_Witness ==
    \E t, u \in Threads :
        /\ pc[t] = "tx" /\ caller[t] = "dispatcher"
        /\ pc[u] = "lock" /\ caller[u] \in {"topic", "param"}

\* C8: whenever processPacket has ended, it has returned normally.
C8_AlwaysReturnsNormally ==
    \A t \in Threads : pc[t] = "done" => ret[t] = "normal"

\* C9: tx_mutex_ is held only by a thread inside the transmit callback, so with no
\* send in progress it is free, also after an invocation of the callback that threw.
C9_LockReleased ==
    /\ tx_mutex_ # 0 => pc[tx_mutex_] = "tx"
    /\ InSink = {} => tx_mutex_ = 0

C9_Witness ==
    \E t, u \in Threads :
        /\ pc[t] = "done" /\ ret[t] = "exception"
        /\ ConnectAccepted(t) /\ invoked[t] = <<>> /\ sent[t] # {}
        /\ pc[u] = "tx" /\ tx_mutex_ = u

\* C10: every acknowledgement the dispatcher transmits carries exactly the inbound
\* ack token, which is not 0, and no payload field, and goes to the client the
\* packet came from.
C10_AckEnvelope ==
    \A t \in Threads :
        \A s \in DispatcherAcks(t) :
            /\ s.client = clientId(t)
            /\ msg[t].ack # 0
            /\ s.data = <<[tag |-> kAck, val |-> msg[t].ack]>>
            /\ Parse(s.data) = [DefaultMsg EXCEPT !.ack = msg[t].ack]

C10_Witness ==
    \E t \in Threads :
        /\ msg[t].msg_case \notin {MSG_NOT_SET, kConnectVer}
        /\ msg[t].ack = MaxVal
        /\ pc[t] = "done"
        /\ \E s \in DispatcherAcks(t) :
             s.client = clientId(t) /\ Parse(s.data).msg_case = MSG_NOT_SET

\* thread t starts a new call of processPacket in this step
StartsCall(t) ==
    /\ pc[t] \in {"idle", "done"}
    /\ <<pc[t], frame[t], msg[t], logs[t], invoked[t]>>
         # <<pc[t], frame[t], msg[t], logs[t], invoked[t]>>'

\* C11: a MsgConversionError that comes out of a handler's processMessage ends the
\* packet inside processPacket: the call returns normally, no further handler is
\* called, nothing more is transmitted and no acknowledgement is sent; when the
\* handler threw it itself the mutex and the wire are left as they were, when it came
\* from the transmit callback the handler's sendResponse invoked, the catch block
\* runs after the mutex is released. The thread's next call starts from a clean slate.
C11_ConversionErrorCaught ==
    /\ [](\A t \in Threads :
            /\ HandlerErrorLogged(t) =>
                 /\ pc[t] = "done"
                 /\ ret[t] = "normal"
                 /\ DispatcherAcks(t) = {}
            /\ (pc[t] = "catch" /\ invoked[t] # <<>>  /\ claimed[t] = "none") =>
                 (tx_mutex_ # t /\ DispatcherAcks(t) = {}))
    /\ [][\A t \in Threads :
            /\ (pc[t] \in {"topic", "param"} /\ ConversionErrorLogged(t)') =>
                 /\ pc'[t] = "done"
                 /\ HandlerErrorLogged(t)'
                 /\ invoked'[t] = invoked[t]
                 /\ sent'[t] = sent[t]
                 /\ send_ack'[t] = send_ack[t]
                 /\ <<tx_mutex_, wire, protocol_version_>>' = <<tx_mutex_, wire, protocol_version_>>
            /\ (pc[t] = "tx" /\ caller[t] \in {"topic", "param"} /\ pc'[t] = "catch") =>
                 /\ claimed'[t] = "none"
                 /\ invoked'[t] = invoked[t]
                 /\ sent'[t] = sent[t] /\ DispatcherAcks(t) = {}
                 /\ tx_mutex_' = 0
            /\ (pc[t] = "catch" /\ pc'[t] # "catch") =>
                 /\ pc'[t] = "done" /\ ret'[t] = "normal"
                 /\ ConversionErrorLogged(t)'
                 /\ <<invoked[t], sent[t], claimed[t], send_ack[t]>>'
                      = <<invoked[t], sent[t], claimed[t], send_ack[t]>>
                 /\ <<tx_mutex_, wire>>' = <<tx_mutex_, wire>>
            /\ (HandlerErrorLogged(t) /\ StartsCall(t)) =>
                 /\ sent'[t] = {}
                 /\ claimed'[t] = "none"
                 /\ invoked'[t] \in {<<>>, <<"topic">>}
                 /\ ~ConversionErrorLogged(t)'
                 /\ pc'[t] \in {"done", "topic", "send"}]_vars

C11_Witness ==
    \E t, u \in Threads :
        /\ HandlerErrorLogged(t) /\ invoked[t] = <<"topic">>
        /\ msg[t].ack # 0 /\ pc[t] = "done" /\ ret[t] = "normal"
        /\ HandlerErrorLogged(u) /\ invoked[u] = <<"topic", "param">>
        /\ msg[u].ack # 0 /\ sent[u] # {}

\* thread t's packet carried an undeclared field in place of a payload, and both
\* handlers returned false for it
UndeclaredUnclaimed(t) ==
    /\ frame[t] = "undeclared"
    /\ pc[t] = "done"
    /\ ret[t] = "normal"
    /\ claimed[t] = "none"
    /\ ~ConversionErrorLogged(t)

\* C12 as stated: an envelope with an undeclared field tag set that no handler
\* claims is reported with the 'no handler' warning naming "Unknown Topic Num <tag>",
\* not with the 'not populated' warning, and nothing is transmitted.
C12_Original ==
    \A t \in Threads :
        UndeclaredUnclaimed(t) =>
            /\ \E n \in UndeclaredTags :
                 LogLine("warn", "no_handler", lookupCommFieldName(n)) \in logs[t]
            /\ LogLine("warn", "not_populated", "") \notin logs[t]
            /\ sent[t] = {}

\* C12 amended: an undeclared field tag is not a member of oneof msg, so the
\* envelope decodes with no payload field set; when no handler claims it the
\* 'not populated' warning is logged, no 'no handler' warning is, and the dispatcher
\* sends no acknowledgement.
C12_UndeclaredIsNotSet ==
    \A t \in Threads :
        /\ frame[t] = "undeclared" => msg[t].msg_case = MSG_NOT_SET
        /\ UndeclaredUnclaimed(t) =>
             /\ LogLine("warn", "not_populated", "") \in logs[t]
             /\ \A l \in logs[t] : l.event # "no_handler"
             /\ DispatcherAcks(t) = {}

C12_Witness ==
    \E t \in Threads :
        /\ UndeclaredUnclaimed(t)
        /\ msg[t].ack # 0
        /\ invoked[t] = <<"topic", "param">>
        /\ LogLine("warn", "not_populated", "") \in logs[t]
        /\ sent[t] = {}

\* C13 as stated: while a thread is encoding an outbound message, no other thread
\* holds tx_mutex_ or is encoding.
C13_Original ==
    \A t, u \in Threads :
        (t # u /\ pc[t] = "send") => (tx_mutex_ # u /\ pc[u] # "send")

\* C13 amended: tx_mutex_ covers the call of the transmit callback only. A thread
\* that is encoding, or has encoded and waits, does not hold it, and the step that
\* encodes leaves it alone; it is taken, when free, by the step that enters the
\* callback with the finished encoding; at most one callback is in progress.
C13_LockCoversTransmitOnly ==
    /\ [](/\ Cardinality(InSink) <= 1
          /\ \A t \in Threads : pc[t] \in {"send", "lock"} => tx_mutex_ # t)
    /\ [][\A t \in Threads :
            /\ (pc[t] = "send" /\ pc'[t] # "send") => tx_mutex_' = tx_mutex_
            /\ (tx_mutex_ # t /\ tx_mutex_' = t) =>
                 /\ tx_mutex_ = 0
                 /\ pc[t] = "lock" /\ pc'[t] = "tx"
                 /\ txdata[t] = Serialize(out[t])]_vars

C13_Witness ==
    \E t, u \in Threads :
        /\ pc[t] = "send" /\ caller[t] = "dispatcher"
        /\ pc[u] = "tx" /\ tx_mutex_ = u

\* C14: for a decoded message that is no connect message the topic handler is
\* called first; the parameter handler is called only by the step in which the topic
\* handler returned false, never for a message the topic handler claimed, and a
\* message is claimed by at most one handler.
C14_HandlerOrder ==
    /\ [](\A t \in Threads :
            /\ invoked[t] \in {<<>>, <<"topic">>, <<"topic", "param">>}
            /\ claimed[t] \in {"none", "topic", "param"}
            /\ (frame[t] \in {"ok", "undeclared"} /\ msg[t].msg_case # kConnectVer) =>
                 (invoked[t] # <<>> /\ invoked[t][1] = "topic")
            /\ pc[t] = "topic" => (invoked[t] = <<"topic">> /\ claimed[t] = "none")
            /\ claimed[t] = "topic" => invoked[t] = <<"topic">>
            /\ (pc[t] = "param" \/ claimed[t] = "param") => invoked[t] = <<"topic", "param">>)
    /\ [][\A t \in Threads :
            (invoked'[t] = <<"topic", "param">> /\ invoked[t] # invoked'[t]) =>
                /\ pc[t] = "topic" /\ invoked[t] = <<"topic">>
                /\ pc'[t] = "param" /\ claimed'[t] = "none"]_vars

C14_Witness ==
    \E t, u \in Threads :
        /\ claimed[t] = "topic" /\ invoked[t] = <<"topic">> /\ pc[t] = "done"
        /\ claimed[u] = "param" /\ invoked[u] = <<"topic", "param">> /\ pc[u] = "done"

\* C15: for a decoded connect message, accepted or rejected, neither handler is
\* called at any point of the call: no handler has been invoked, none is running,
\* none claimed it, and nothing was transmitted on a handler's behalf.
C15_ConnectBypassesHandlers ==
    \A t \in Threads :
        (frame[t] = "ok" /\ msg[t].msg_case = kConnectVer) =>
            /\ invoked[t] = <<>>
            /\ claimed[t] = "none"
            /\ pc[t] \notin {"topic", "param"}
            /\ caller[t] \notin {"topic", "param"}
            /\ sent[t] = DispatcherAcks(t)

C15_Witness ==
    \E t, u \in Threads :
        /\ ConnectAccepted(t) /\ pc[t] = "done" /\ sent[t] # {} /\ invoked[t] = <<>>
        /\ ConnectRejected(u) /\ pc[u] = "done" /\ msg[u].ack # 0 /\ invoked[u] = <<>>

\* the frame of thread t's packet did not decode
Undecodable(t) == frame[t] \in {"malformed", "oversize"}

\* C16: whatever the thread's previous call was, a call starts from the packet alone:
\* its first step depends only on the packet and the protocol version (an undecodable
\* packet ends it, a connect message is answered or not by its version and token,
\* any other message goes to the topic handler with send_ack false), and by its end
\* the dispatcher has acknowledged exactly when the token is not 0 and either the
\* connect was accepted or the topic handler claimed the message.
C16_StatelessPerPacket ==
    /\ [](\A t \in SeqThreads :
            pc[t] = "done" =>
                (DispatcherAcks(t) # {} <=>
                    (msg[t].ack # 0 /\ (ConnectAccepted(t) \/ claimed[t] = "topic"))))
    /\ [][\A t \in SeqThreads :
            StartsCall(t) =>
                /\ before'[t] = CallKind(t)
                /\ claimed'[t] = "none" /\ sent'[t] = {}
                /\ IF Undecodable(t)'
                   THEN pc'[t] = "done" /\ invoked'[t] = <<>>
                   ELSE IF msg'[t].msg_case = kConnectVer
                   THEN /\ invoked'[t] = <<>>
                        /\ send_ack'[t] = (msg'[t].connect_ver = protocol_version_)
                        /\ pc'[t] = IF send_ack'[t] /\ msg'[t].ack # 0 THEN "send" ELSE "done"
                   ELSE /\ pc'[t] = "topic"
                        /\ invoked'[t] = <<"topic">>
                        /\ send_ack'[t] = FALSE
                        /\ logs'[t] = {}]_vars

C16_Witness ==
    \E t \in SeqThreads :
        /\ before[t] = "connect_rejected"
        /\ msg[t].msg_case \notin {MSG_NOT_SET, kConnectVer}
        /\ claimed[t] = "topic"
        /\ pc[t] = "done"
        /\ DispatcherAcks(t) # {}

\* thread t's sendResponse logged that its message could not be serialized
SerializeErrorLogged(t) == LogLine("error", "serialize", "") \in logs[t]

\* C17: the step of sendResponse that fails to encode returns to the caller of
\* sendResponse at once: tx_mutex_ and the wire are untouched, no transmission is
\* recorded, the failure is logged; and no thread waits for the mutex or is inside
\* the callback with a message that does not encode.
C17_EncodeFailureAbandonsSend ==
    /\ [](\A t \in Threads : pc[t] \in {"lock", "tx"} => ~out[t].oversize)
    /\ [][\A t \in Threads :
            (pc[t] = "send" /\ out[t].oversize /\ pc'[t] # "send") =>
                /\ pc'[t] = ReturnTo(caller[t])
                /\ SerializeErrorLogged(t)'
                /\ sent'[t] = sent[t]
                /\ <<tx_mutex_, wire>>' = <<tx_mutex_, wire>>
                /\ caller'[t] = "none" /\ txdata'[t] = txdata[t]]_vars

C17_Witness ==
    \E t \in Threads :
        /\ SerializeErrorLogged(t)
        /\ pc[t] = "done" /\ ret[t] = "normal"
        /\ claimed[t] = "param"
        /\ sent[t] = {}

----------------------------------------------------------------------------
(* Progress: the same steps, with every handler call and every callback
   invocation coming to an end and every thread scheduled fairly *)

\* the handler called for thread t's packet ends its processMessage
HandlerEnds(t) ==
    \/ TopicClaims(t) \/ TopicDeclines(t) \/ ParamClaims(t) \/ ParamDeclines(t)
    \/ HandlerThrow(t) \/ HandlerThrowOther(t)

\* the transmit callback invoked for thread t ends
SinkEnds(t) == TxReturn(t) \/ TxThrow(t) \/ TxThrowConversion(t)

\* a handler that can end its call does so, however many replies it sends first; a
\* thread that can serialize does; a thread waiting for tx_mutex_ gets it if it stays
\* free (std::mutex promises no turn to a waiter that others overtake); a callback
\* invocation ends; the catch block runs
Fairness ==
    \A t \in Threads :
        /\ SF_vars(HandlerEnds(t))
        /\ WF_vars(Encode(t))
        /\ WF_vars(TxBegin(t))
        /\ WF_vars(SinkEnds(t))
        /\ WF_vars(CatchConversionError(t))

LiveSpec == Init /\ [][Next]_vars /\ Fairness

\* thread t is inside a call of processPacket
InCall(t) == pc[t] \notin {"idle", "done"}

\* thread t is inside a handler's processMessage, the handler's own sends included
InHandler(t) ==
    \/ pc[t] \in {"topic", "param"}
    \/ pc[t] \in {"send", "lock", "tx"} /\ caller[t] \in {"topic", "param"}

\* thread t is at the scoped_lock of sendResponse
AtLock(t) == pc[t] = "lock"

\* nothing has been thrown in thread t's call: every handler call and every
\* callback invocation that ended has returned
NothingThrown(t) ==
    ret[t] # "exception" /\ pc[t] # "catch" /\ ~ConversionErrorLogged(t)

\* C18 as stated: if every handler call and every callback invocation returns,
\* then with every thread scheduled fairly every call of processPacket that is
\* under way comes to its end.
C18_Original ==
    (/\ [](\A t \in Threads : NothingThrown(t))
     /\ \A t \in Threads : InHandler(t) ~> ~InHandler(t))
        => (\A t \in Threads : InCall(t) ~> pc[t] = "done")

\* C18 amended: tx_mutex_ never causes a deadlock: while a thread is at the lock,
\* either the mutex is free and the thread can take it, or its holder is inside
\* the callback, which can end and release it. A call of processPacket that never
\* comes to its end is at the lock for ever from some point on: every call of a
\* thread that is not left at the lock for ever comes to its end.
C18_CompletesUnlessOvertaken ==
    /\ [](\A t \in Threads :
            AtLock(t) =>
                \/ ENABLED TxBegin(t)
                \/ \E u \in Threads \ {t} : tx_mutex_ = u /\ ENABLED SinkEnds(u))
    /\ \A t \in Threads : <>[]InCall(t) => <>[]AtLock(t)

C18_Witness ==
    \E t, u \in Threads :
        /\ AtLock(t) /\ caller[t] = "dispatcher"
        /\ pc[u] = "tx" /\ tx_mutex_ = u /\ caller[u] \in {"topic", "param"}
        /\ ~ENABLED TxBegin(t)

\* C19: tx_mutex_ is not held by a thread whose handler is running, nor by a
\* thread on its way to the callback; its holder is inside the callback. So a
\* handler's own sendResponse finds the mutex free of its own call, and takes it
\* whenever no other thread is transmitting.
C19_NoLockWhileHandlerRuns ==
    \A t \in Threads :
        /\ pc[t] \in {"topic", "param"} => tx_mutex_ # t
        /\ (caller[t] \in {"topic", "param"} /\ pc[t] \in {"send", "lock"}) => tx_mutex_ # t
        /\ tx_mutex_ = t => (pc[t] = "tx" /\ caller[t] # "none")
        /\ (pc[t] = "lock" /\ \A u \in Threads \ {t} : pc[u] # "tx") => ENABLED TxBegin(t)

C19_Witness ==
    \E t \in Threads :
        /\ pc[t] = "tx" /\ tx_mutex_ = t
        /\ caller[t] = "param" /\ invoked[t] = <<"topic", "param">>
        /\ \A u \in Threads \ {t} : pc[u] = "idle"

\* thread t waits for tx_mutex_, which another thread holds
WaitsForLock(t) == pc[t] = "lock" /\ ~LockAvailable(tx_mutex_)

\* C20 as stated: a call waits for tx_mutex_ only in the acknowledge step of
\* processPacket, never while a handler's processMessage is running.
C20_Original ==
    \A t \in Threads : WaitsForLock(t) => caller[t] = "dispatcher"

\* C20 amended: decoding, classifying and calling or leaving a handler neither wait
\* for tx_mutex_ nor change it. A call waits for it in sendResponse only: called by
\* the dispatcher, that is the acknowledge step, after routing is over and an
\* acknowledgement is due; called by a running handler for its own reply, that is
\* during routing.
C20_WaitsOnlyInSend ==
    /\ [](\A t \in Threads :
            /\ pc[t] \in {"topic", "param"} => ENABLED HandlerEnds(t)
            /\ pc[t] = "send" => ENABLED Encode(t)
            /\ WaitsForLock(t) =>
                 IF caller[t] = "dispatcher"
                 THEN /\ msg[t].ack # 0
                      /\ ConnectAccepted(t) \/ claimed[t] = "topic"
                 ELSE /\ caller[t] \in {"topic", "param"}
                      /\ claimed[t] = "none"
                      /\ invoked[t][Len(invoked[t])] = caller[t])
    /\ [][\A t \in Threads :
            (pc[t] \notin {"lock", "tx"} /\ (StartsCall(t) \/ pc'[t] # pc[t])) =>
                tx_mutex_' = tx_mutex_]_vars

C20_Witness ==
    \E t, u \in Threads :
        /\ WaitsForLock(t) /\ caller[t] = "topic" /\ invoked[t] = <<"topic">>
        /\ pc[u] = "tx" /\ tx_mutex_ = u /\ caller[u] = "dispatcher"

====
